---- MODULE Spec2Model ----
(***************************************************************************)
(* Model of calculateSteamMarketTotal (src/utils/steam-api.ts): the        *)
(* paginated fetch loop, the row extraction and the aggregation.           *)
(*                                                                         *)
(* Conventions                                                             *)
(*  - a text is a sequence of one-character strings;                       *)
(*  - an optional value (a DOM element that may be missing, a JSON         *)
(*    property that may be absent, a regex match that may be null) is      *)
(*    None == <<>> or Some(v) == <<v>>;                                    *)
(*  - an amount is an integer number of thousandths, so that the final     *)
(*    toFixed(2) rounding really rounds.                                   *)
(***************************************************************************)
EXTENDS Integers, Sequences, FiniteSets, TLC

VARIABLES
    pc,             \* position of the async function: idle, fetching, delaying, done, failed
    authParams,     \* the argument of the current call
    cookieValue,    \* Cookie header built before the loop
    start,          \* offset of the next page
    totalCount,     \* total_count captured from a response, 0 while unknown
    hasMoreItems,   \* loop condition
    pageCount,      \* number of loop iterations begun
    items,          \* accepted MarketItems, in encounter order
    total,          \* running grand total
    salesTotal,     \* running sales total
    purchasesTotal, \* running purchases total
    currency,       \* detected currency symbol, <<>> while undetected
    result,         \* None, or Some(MarketTotalResult) once the promise resolved
    error,          \* None, or Some(message) once the promise rejected
    wait,           \* milliseconds of the pending setTimeout, 0 if none
    inFlight,       \* number of fetch requests issued and not yet answered
    log,            \* what the current call did so far: fetches, responses, delays
    response,       \* None, or Some(the response the current iteration received)
    calls,          \* number of calls of calculateSteamMarketTotal begun
    cli,            \* position of runCli: off, calculating, finished, crashed
    envFile,        \* None, or Some(the variables the .env file holds)
    useSavedCookies, \* runCli's flag: the saved credentials are in use
    entered,        \* None, or Some(the credentials typed at the prompts of this run)
    outputPath,     \* whether this run was given an --output path
    exported,       \* None, or Some(the data this run wrote to the output file)
    shown,          \* the transactions this run listed as the most valuable
    offered,        \* this run asked whether to delete the saved credentials
    deleteCookies,  \* the answer to that question, "" when it was not asked
    persisted       \* what loadEnv, saveEnv and deleteEnv returned in this run

vars == << pc, authParams, cookieValue, start, totalCount, hasMoreItems, pageCount,
           items, total, salesTotal, purchasesTotal, currency, result, error, wait,
           inFlight, log, response, calls,
           cli, envFile, useSavedCookies, entered, outputPath, exported, shown, offered,
           deleteCookies, persisted >>

\* The variables of runCli and of the credential file
cliVars == << cli, envFile, useSavedCookies, entered, outputPath, exported, shown,
              offered, deleteCookies, persisted >>

None == << >>
Some(v) == << v >>

(***************************************************************************)
(* Bounds of the model                                                     *)
(***************************************************************************)
MaxPages == 3
MaxRows == 2
MaxCalls == 2

(***************************************************************************)
(* Program constants                                                       *)
(***************************************************************************)
count == 500
DelayMs == 3000
Thousandths == 10 * 10 * 10

(***************************************************************************)
(* Texts                                                                   *)
(***************************************************************************)
UpperChars == { "A", "B", "C", "D", "E", "F", "G", "H", "I", "J", "K", "L", "M",
                "N", "O", "P", "Q", "R", "S", "T", "U", "V", "W", "X", "Y", "Z" }

\* The character class [A-Z$...] of the price pattern (the non-ASCII currency
\* signs of the class are not used by the inputs of the model).
SymbolChars == UpperChars \cup { "$" }

\* \s
SpaceChars == { " " }

DigitChars == { "0", "1", "2", "3", "4", "5", "6", "7", "8", "9" }

\* [0-9.,]
NumberChars == DigitChars \cup { ".", "," }

DigitVal(c) ==
    CASE c = "0" -> 0 [] c = "1" -> 1 [] c = "2" -> 2 [] c = "3" -> 3 [] c = "4" -> 4
      [] c = "5" -> 5 [] c = "6" -> 6 [] c = "7" -> 7 [] c = "8" -> 8 [] c = "9" -> 9

\* String.prototype.trim
RECURSIVE TrimLeft(_)
TrimLeft(t) ==
    IF t # << >> /\ Head(t) \in SpaceChars THEN TrimLeft(Tail(t)) ELSE t

RECURSIVE TrimRight(_)
TrimRight(t) ==
    IF t # << >> /\ t[Len(t)] \in SpaceChars THEN TrimRight(SubSeq(t, 1, Len(t) - 1)) ELSE t

Trim(t) == TrimRight(TrimLeft(t))

\* String.prototype.includes for a one-character needle
Includes(t, c) == \E i \in 1..Len(t) : t[i] = c

\* String.prototype.replace(c, d) with a string pattern: the first occurrence only
RECURSIVE ReplaceFirst(_, _, _)
ReplaceFirst(t, c, d) ==
    IF t = << >> THEN << >>
    ELSE IF Head(t) = c THEN << d >> \o Tail(t)
    ELSE << Head(t) >> \o ReplaceFirst(Tail(t), c, d)

\* The index just after the longest run of characters of class C that starts at i
RECURSIVE RunEnd(_, _, _)
RunEnd(t, i, C) ==
    IF i <= Len(t) /\ t[i] \in C THEN RunEnd(t, i + 1, C) ELSE i

\* The pattern /([A-Z$...]*)[\s]*([0-9.,]+)/ tried at position i. The three classes
\* are disjoint, so the greedy runs are the only way the pattern can match at i.
MatchAt(t, i) ==
    LET j == RunEnd(t, i, SymbolChars)
        k == RunEnd(t, j, SpaceChars)
        m == RunEnd(t, k, NumberChars)
    IN  IF m > k
        THEN Some([ symbol |-> SubSeq(t, i, j - 1), number |-> SubSeq(t, k, m - 1) ])
        ELSE None

\* priceText.match(...): the leftmost match, or null
RECURSIVE MatchFrom(_, _)
MatchFrom(t, i) ==
    IF i > Len(t) THEN None
    ELSE IF MatchAt(t, i) # None THEN MatchAt(t, i)
    ELSE MatchFrom(t, i + 1)

PriceMatch(t) == MatchFrom(t, 1)

\* The value of a run of digits
RECURSIVE DigitsValue(_)
DigitsValue(t) ==
    IF t = << >> THEN 0 ELSE DigitsValue(SubSeq(t, 1, Len(t) - 1)) * 10 + DigitVal(t[Len(t)])

\* The first three fraction digits as thousandths (digits beyond the third are
\* below the resolution of the model)
FractionValue(t) ==
    LET d(i) == IF i <= Len(t) THEN DigitVal(t[i]) ELSE 0
    IN  d(1) * 100 + d(2) * 10 + d(3)

\* parseFloat on a text of digits, dots and commas: the longest prefix that is a
\* decimal literal; NaN when there is none
ParseFloat(t) ==
    LET e == RunEnd(t, 1, DigitChars)
        hasDot == e <= Len(t) /\ t[e] = "."
        f == IF hasDot THEN RunEnd(t, e + 1, DigitChars) ELSE e
        intDigits == SubSeq(t, 1, e - 1)
        fracDigits == IF hasDot THEN SubSeq(t, e + 1, f - 1) ELSE << >>
    IN  IF intDigits = << >> /\ fracDigits = << >>
        THEN [ nan |-> TRUE, val |-> 0 ]
        ELSE [ nan |-> FALSE,
               val |-> DigitsValue(intDigits) * Thousandths + FractionValue(fracDigits) ]

\* parseFloat(x.toFixed(2)): round to two fraction digits, halves up
ToFixed2(x) == ((x + 5) \div 10) * 10

UnknownItem == << "U", "n", "k", "n", "o", "w", "n", " ", "I", "t", "e", "m" >>


(***************************************************************************)
(* The state as one record, so that the pieces of the function are         *)
(* operators from state to state                                           *)
(***************************************************************************)
St ==
    [ pc |-> pc, authParams |-> authParams, cookieValue |-> cookieValue, start |-> start,
      totalCount |-> totalCount, hasMoreItems |-> hasMoreItems, pageCount |-> pageCount,
      items |-> items, total |-> total, salesTotal |-> salesTotal,
      purchasesTotal |-> purchasesTotal, currency |-> currency, result |-> result,
      error |-> error, wait |-> wait, inFlight |-> inFlight, log |-> log,
      response |-> response,
      calls |-> calls ]

Becomes(s) ==
    /\ pc' = s.pc
    /\ authParams' = s.authParams
    /\ cookieValue' = s.cookieValue
    /\ start' = s.start
    /\ totalCount' = s.totalCount
    /\ hasMoreItems' = s.hasMoreItems
    /\ pageCount' = s.pageCount
    /\ items' = s.items
    /\ total' = s.total
    /\ salesTotal' = s.salesTotal
    /\ purchasesTotal' = s.purchasesTotal
    /\ currency' = s.currency
    /\ result' = s.result
    /\ error' = s.error
    /\ wait' = s.wait
    /\ inFlight' = s.inFlight
    /\ log' = s.log
    /\ response' = s.response
    /\ calls' = s.calls

(***************************************************************************)
(* The Cookie header                                                       *)
(***************************************************************************)
\* JavaScript truthiness of an optional string
Truthy(o) == o # None /\ o[1] # ""

\* Mutant: the machine-auth cookie is added whenever steamMachineAuth is given,
\* with or without a Steam ID
BuildCookieMachineOnly(a) ==
    << "sessionid=", a.sessionId, "; steamLoginSecure=", a.steamLoginSecure >>
    \o (IF Truthy(a.steamParental)
        THEN << "; steamparental=", a.steamParental[1] >> ELSE << >>)
    \o (IF Truthy(a.steamMachineAuth)
        THEN << "; steamMachineAuth",
                IF a.steamId = None THEN "undefined" ELSE a.steamId[1],
                "=", a.steamMachineAuth[1] >>
        ELSE << >>)

BuildCookie(a) ==
    << "sessionid=", a.sessionId, "; steamLoginSecure=", a.steamLoginSecure >>
    \o (IF Truthy(a.steamParental)
        THEN << "; steamparental=", a.steamParental[1] >> ELSE << >>)
    \o (IF Truthy(a.steamMachineAuth) /\ Truthy(a.steamId)
        THEN << "; steamMachineAuth", a.steamId[1], "=", a.steamMachineAuth[1] >>
        ELSE << >>)

(***************************************************************************)
(* One row of a page                                                       *)
(***************************************************************************)
\* if (!gainOrLossElement || !priceElement) continue
HasElements(row) == row.gain # None /\ row.price # None

\* Mutant: the indicator text is not checked
HasTextsPriceOnly(gainOrLossText, priceText) == priceText # << >>

\* if (!gainOrLossText || !priceText) continue
HasTexts(gainOrLossText, priceText) == gainOrLossText # << >> /\ priceText # << >>

\* Mutant: the last symbol wins
DetectCurrencyLast(cur, currencySymbol) ==
    IF currencySymbol # << >> THEN currencySymbol ELSE cur

\* if (!currency && currencySymbol) currency = currencySymbol
DetectCurrency(cur, currencySymbol) ==
    IF cur = << >> /\ currencySymbol # << >> THEN currencySymbol ELSE cur

\* Mutant: the sentinel is used for an absent name element only
ItemNameOfElement(row) ==
    IF row.name # None THEN Trim(row.name[1]) ELSE UnknownItem

\* itemName: the trimmed text of the name element, or the sentinel
ItemName(row) ==
    IF row.name # None /\ Trim(row.name[1]) # << >> THEN Trim(row.name[1]) ELSE UnknownItem

\* const type = isSale ? 'sale' : 'purchase'
ItemType(isSale, isPurchase) == IF isSale THEN "sale" ELSE "purchase"

\* if (isSale) salesTotal += priceValue
AddSale(sum, isSale, isPurchase, priceValue) ==
    IF isSale THEN sum + priceValue ELSE sum

\* Mutant: `if (isPurchase)` without the `else`
AddPurchaseAlso(sum, isSale, isPurchase, priceValue) ==
    IF isPurchase THEN sum + priceValue ELSE sum

\* else if (isPurchase) purchasesTotal += priceValue
AddPurchase(sum, isSale, isPurchase, priceValue) ==
    IF ~isSale /\ isPurchase THEN sum + priceValue ELSE sum

\* Mutant: the currency is detected only once the price has converted
ProcessRowDetectLate(s, row) ==
    IF ~HasElements(row) THEN s
    ELSE
      LET gainOrLossText == Trim(row.gain[1])
          priceText == Trim(row.price[1])
      IN  IF ~HasTexts(gainOrLossText, priceText) THEN s
          ELSE
            LET isSale == Includes(gainOrLossText, "-")
                isPurchase == Includes(gainOrLossText, "+")
                match == PriceMatch(priceText)
            IN  IF match = None THEN s
                ELSE
                  LET priceValue == ParseFloat(ReplaceFirst(match[1].number, ",", "."))
                  IN  IF priceValue.nan THEN s
                      ELSE [ s EXCEPT
                               !.currency = DetectCurrency(@, match[1].symbol),
                               !.salesTotal = AddSale(@, isSale, isPurchase, priceValue.val),
                               !.purchasesTotal =
                                   AddPurchase(@, isSale, isPurchase, priceValue.val),
                               !.total = @ + priceValue.val,
                               !.items = Append(@, [ name |-> ItemName(row),
                                                     price |-> priceValue.val,
                                                     type |-> ItemType(isSale, isPurchase) ]) ]

\* The body of the loop over the rows
ProcessRow(s, row) ==
    IF ~HasElements(row) THEN s
    ELSE
      LET gainOrLossText == Trim(row.gain[1])
          priceText == Trim(row.price[1])
      IN  IF ~HasTexts(gainOrLossText, priceText) THEN s
          ELSE
            LET isSale == Includes(gainOrLossText, "-")
                isPurchase == Includes(gainOrLossText, "+")
                match == PriceMatch(priceText)
            IN  IF match = None THEN s
                ELSE
                  LET s1 == [ s EXCEPT !.currency = DetectCurrency(@, match[1].symbol) ]
                      priceValue == ParseFloat(ReplaceFirst(match[1].number, ",", "."))
                  IN  IF priceValue.nan THEN s1
                      ELSE [ s1 EXCEPT
                               !.salesTotal = AddSale(@, isSale, isPurchase, priceValue.val),
                               !.purchasesTotal =
                                   AddPurchase(@, isSale, isPurchase, priceValue.val),
                               !.total = @ + priceValue.val,
                               !.items = Append(@, [ name |-> ItemName(row),
                                                     price |-> priceValue.val,
                                                     type |-> ItemType(isSale, isPurchase) ]) ]

\* Mutant: the rows are handled last to first
RECURSIVE ProcessRowsReversed(_, _)
ProcessRowsReversed(s, rows) ==
    IF rows = << >> THEN s
    ELSE ProcessRow(ProcessRowsReversed(s, Tail(rows)), Head(rows))

\* for (const row of Array.from(marketRows)): document order
RECURSIVE ProcessRows(_, _)
ProcessRows(s, rows) ==
    IF rows = << >> THEN s ELSE ProcessRows(ProcessRow(s, Head(rows)), Tail(rows))


(***************************************************************************)
(* The fetch loop                                                          *)
(***************************************************************************)
\* The head of the loop up to `await fetch(url, ...)`: the request for the page at
\* `start` leaves with the Cookie header
IssueFetch(s) ==
    [ s EXCEPT !.pc = "fetching",
               !.pageCount = @ + 1,
               !.wait = 0,
               !.response = None,
               !.inFlight = @ + 1,
               !.log = Append(@, [ ev |-> "fetch", start |-> s.start, count |-> count,
                                   cookie |-> s.cookieValue ]) ]

\* Mutant: the accumulators live outside the function and survive a call
EnterKeeping(s, a) ==
    IssueFetch([ s EXCEPT !.authParams = a,
                          !.cookieValue = BuildCookie(a),
                          !.start = 0,
                          !.totalCount = 0,
                          !.hasMoreItems = TRUE,
                          !.pageCount = 0,
                          !.result = None,
                          !.error = None,
                          !.log = << >>,
                          !.calls = @ + 1 ])

\* The function from its entry to the first `await`
Enter(s, a) ==
    IssueFetch([ s EXCEPT !.authParams = a,
                          !.cookieValue = BuildCookie(a),
                          !.items = << >>,
                          !.total = 0,
                          !.salesTotal = 0,
                          !.purchasesTotal = 0,
                          !.currency = << >>,
                          !.start = 0,
                          !.totalCount = 0,
                          !.hasMoreItems = TRUE,
                          !.pageCount = 0,
                          !.result = None,
                          !.error = None,
                          !.log = << >>,
                          !.calls = @ + 1 ])

\* return { total: parseFloat(total.toFixed(2)), ... }
Return(s) ==
    [ s EXCEPT !.pc = "done",
               !.result = Some([ total |-> ToFixed2(s.total),
                                 sales |-> ToFixed2(s.salesTotal),
                                 purchases |-> ToFixed2(s.purchasesTotal),
                                 currency |-> s.currency,
                                 items |-> s.items ]) ]

\* throw ...; catch (error) { ...; throw error }
Throw(s, message) == [ s EXCEPT !.pc = "failed", !.error = Some(message) ]

\* Mutant: the status is not checked
ResponseOkUnchecked(resp) == TRUE

\* response.ok
ResponseOk(resp) == resp.ok

\* Mutant: every response that carries a total_count sets totalCount
CaptureTotalAlways(tc, data) ==
    IF data.total_count # None /\ data.total_count[1] # 0
    THEN data.total_count[1] ELSE tc

\* if (totalCount === 0 && data.total_count) totalCount = data.total_count
CaptureTotal(tc, data) ==
    IF tc = 0 /\ data.total_count # None /\ data.total_count[1] # 0
    THEN data.total_count[1] ELSE tc

\* data.results_html is truthy (an absent property and an empty string are not)
HasResults(data) == data.results_html # None

\* if (!data.results_html) { ...; break }: the loop is left and the function returns
NoResults(s) == Return(s)

\* Mutant: the offset advances one too far
NextStartOffByOne(n) == n + count + 1

\* start += count
NextStart(n) == n + count

\* Mutant: the delay is not awaited, the loop goes round at once
DelaySkipped(s) == IssueFetch(s)

\* Mutant: the promise of the delay helper is never resolved
DelayUnresolved(s) ==
    [ s EXCEPT !.pc = "suspended",
               !.wait = DelayMs,
               !.log = Append(@, [ ev |-> "delay", ms |-> DelayMs ]) ]

\* await delay(3000)
Delay(s) ==
    [ s EXCEPT !.pc = "delaying",
               !.wait = DelayMs,
               !.log = Append(@, [ ev |-> "delay", ms |-> DelayMs ]) ]

\* Mutant: the last page is decided with > instead of >=
AfterPageStrict(s) ==
    IF s.start > s.totalCount
    THEN Return([ s EXCEPT !.hasMoreItems = FALSE ])
    ELSE Delay(s)

\* Mutant: the next page is requested before the delay is awaited
AfterPagePrefetch(s) ==
    IF s.start >= s.totalCount
    THEN Return([ s EXCEPT !.hasMoreItems = FALSE ])
    ELSE Delay(IssueFetch(s))

\* if (start >= totalCount) { hasMoreItems = false; ... } else { ...; await delay(3000) }
AfterPage(s) ==
    IF s.start >= s.totalCount
    THEN Return([ s EXCEPT !.hasMoreItems = FALSE ])
    ELSE Delay(s)

\* One iteration of the loop from the response of fetch to the next `await`
\* or to the end of the function
OnResponse(s, resp) ==
    LET s0 == [ s EXCEPT !.inFlight = @ - 1,
                         !.response = Some(resp),
                         !.log = Append(@, [ ev |-> "response", ok |-> resp.ok,
                                             total_count |-> resp.data.total_count,
                                             html |-> resp.data.results_html # None ]) ]
    IN  IF ~ResponseOk(resp) THEN Throw(s0, "HTTP error")
        ELSE
          LET s1 == [ s0 EXCEPT !.totalCount = CaptureTotal(@, resp.data) ]
          IN  IF ~HasResults(resp.data) THEN NoResults(s1)
              ELSE
                LET s2 == ProcessRows(s1, resp.data.results_html[1])
                    s3 == [ s2 EXCEPT !.start = NextStart(@),
                                      !.log = Append(@, [ ev |-> "page",
                                                          start |-> s.start ]) ]
                IN  AfterPage(s3)

\* fetch rejects (network failure) or response.json() throws: caught and rethrown
OnReject(s) ==
    Throw([ s EXCEPT !.inFlight = @ - 1,
                     !.log = Append(@, [ ev |-> "rejected" ]) ], "fetch failed")

(***************************************************************************)
(* Inputs                                                                  *)
(***************************************************************************)
NoData == [ total_count |-> None, results_html |-> None ]

\* Credentials: the required pair alone, and the pair with every optional cookie
RequiredAuth ==
    [ sessionId |-> "sid", steamLoginSecure |-> "sls", steamMachineAuth |-> None,
      steamId |-> None, steamParental |-> None ]

FullAuth ==
    [ sessionId |-> "sid", steamLoginSecure |-> "sls", steamMachineAuth |-> Some("sma"),
      steamId |-> Some("76"), steamParental |-> Some("par") ]

AuthPool == { RequiredAuth, FullAuth }

RowAuth == { RequiredAuth }

SaleRow ==
    [ gain |-> Some(<< "-" >>), price |-> Some(<< "$", "1", ".", "0", "0" >>),
      name |-> Some(<< "A" >>) ]

PurchaseRow ==
    [ gain |-> Some(<< " ", "+", " " >>), price |-> Some(<< "E", " ", "2", ",", "5", "0" >>),
      name |-> None ]

NoGainRow ==
    [ gain |-> None, price |-> Some(<< "U", "S", "D", " ", "5" >>), name |-> Some(<< "B" >>) ]

NoPriceRow ==
    [ gain |-> Some(<< "+" >>), price |-> None, name |-> Some(<< "B" >>) ]

EmptyGainRow ==
    [ gain |-> Some(<< " " >>), price |-> Some(<< "E", "4" >>), name |-> Some(<< "B" >>) ]

EmptyPriceRow ==
    [ gain |-> Some(<< "-" >>), price |-> Some(<< >>), name |-> Some(<< "B" >>) ]

NeitherRow ==
    [ gain |-> Some(<< "=" >>), price |-> Some(<< "0", ".", "0", "1", "6" >>),
      name |-> Some(<< " " >>) ]

BothRow ==
    [ gain |-> Some(<< "-", "+" >>), price |-> Some(<< "3", ".", "0", "0", "4" >>),
      name |-> Some(<< "B" >>) ]

NotANumberRow ==
    [ gain |-> Some(<< "+" >>), price |-> Some(<< "E", "," >>), name |-> Some(<< "B" >>) ]

NoMatchRow ==
    [ gain |-> Some(<< "-" >>), price |-> Some(<< "f", "r", "e", "e" >>),
      name |-> Some(<< "B" >>) ]

PagingRows == { SaleRow }

RowPool ==
    { SaleRow, PurchaseRow, NoGainRow, NoPriceRow, EmptyGainRow, EmptyPriceRow,
      NeitherRow, BothRow, NotANumberRow, NoMatchRow }

\* The pages of at most MaxRows rows over a pool of rows
PagesOver(pool) == UNION { [ 1..n -> pool ] : n \in 0..MaxRows }

\* total_count values around the page boundaries, up to MaxPages pages
PagingTotals ==
    { None, Some(0), Some(1), Some(MaxPages * count) }
    \cup { Some(k * count) : k \in 1..(MaxPages - 1) }
    \cup { Some(k * count + 1) : k \in 1..(MaxPages - 1) }

\* total_count values of the scenarios: one short page, two pages
RowTotals == { Some(3), Some(510) }

ResponsesOver(totals, pool) ==
    { [ ok |-> FALSE, data |-> NoData ] }
    \cup { [ ok |-> TRUE, data |-> [ total_count |-> tc, results_html |-> html ] ] :
             tc \in totals, html \in { None } \cup { Some(p) : p \in PagesOver(pool) } }

\* Credentials with every combination of absent, empty and given optional cookies
AuthAll ==
    [ sessionId : { "", "sid" }, steamLoginSecure : { "sls" },
      steamMachineAuth : { None, Some(""), Some("sma") },
      steamId : { None, Some(""), Some("76") },
      steamParental : { None, Some(""), Some("par") } ]

\* total_count values that end the call after one page, two pages and MaxPages
\* pages
LiveTotals ==
    { None, Some(0), Some(1), Some(count), Some(count + 1),
      Some((MaxPages - 1) * count + 1) }

\* Responses for the runs to completion: a failure, or a success with or without
\* a page of one row
LiveResponses ==
    { [ ok |-> FALSE, data |-> NoData ] }
    \cup { [ ok |-> TRUE, data |-> [ total_count |-> tc, results_html |-> html ] ] :
             tc \in LiveTotals, html \in { None, Some(<< SaleRow >>) } }

\* Responses of a history of one or two pages
AuthResponses == ResponsesOver({ Some(1), Some(count + 1) }, PagingRows)

PagingResponses == ResponsesOver(PagingTotals, PagingRows)

RowResponses == ResponsesOver(RowTotals, RowPool)

(***************************************************************************)
(* The credential file (env-manager.ts, cookie-manager.ts)                 *)
(***************************************************************************)
\* cookies.x || ''
OrEmpty(o) == IF o = None THEN "" ELSE o[1]

\* The variables saveCookies hands to saveEnv. saveEnv writes the non-empty ones
\* only, so an empty string here is a key the file does not hold. The escaping of
\* saveEnv changes no value of the model: none holds a quote or a newline.
EnvVars(cookies) ==
    [ STEAM_SESSION_ID |-> cookies.sessionId,
      STEAM_LOGIN_SECURE |-> cookies.steamLoginSecure,
      STEAM_MACHINE_AUTH |-> OrEmpty(cookies.steamMachineAuth),
      STEAM_ID |-> OrEmpty(cookies.steamId),
      STEAM_PARENTAL |-> OrEmpty(cookies.steamParental) ]

\* loadEnv: true when the file exists and dotenv reads it, false otherwise
\* (io is whether the file system and dotenv work)
LoadEnv(file, io) ==
    [ ret |-> file # None /\ io, threw |-> FALSE ]

\* Mutant: saveEnv without its try/catch
SaveEnvThrows(file, variables, io) ==
    [ ret |-> io, file |-> IF io THEN Some(variables) ELSE file, threw |-> ~io ]

\* saveEnv: writes the file and returns true; false when writing throws
SaveEnv(file, variables, io) ==
    [ ret |-> io, file |-> IF io THEN Some(variables) ELSE file, threw |-> FALSE ]

\* deleteEnv: unlinks the file and returns true; false when there is no file or
\* unlinking throws
DeleteEnv(file, io) ==
    [ ret |-> file # None /\ io, file |-> IF io THEN None ELSE file, threw |-> FALSE ]

SaveCookies(cookies, file, io) == SaveEnv(file, EnvVars(cookies), io)

DeleteCookies(file, io) == DeleteEnv(file, io)

\* An optional cookie of the environment: present when non-empty
FromEnv(v) == IF v # "" THEN Some(v) ELSE None

\* loadCookies: None (null) when the file does not load or a required cookie is
\* missing, else the cookies
LoadCookies(file, io) ==
    IF ~LoadEnv(file, io).ret THEN None
    ELSE IF file[1].STEAM_SESSION_ID = "" \/ file[1].STEAM_LOGIN_SECURE = "" THEN None
    ELSE Some([ sessionId |-> file[1].STEAM_SESSION_ID,
                steamLoginSecure |-> file[1].STEAM_LOGIN_SECURE,
                steamMachineAuth |-> FromEnv(file[1].STEAM_MACHINE_AUTH),
                steamId |-> FromEnv(file[1].STEAM_ID),
                steamParental |-> FromEnv(file[1].STEAM_PARENTAL) ])

\* No persistence call has returned yet in this run
NotPersisted == [ load |-> "none", save |-> "none", delete |-> "none" ]

Outcome(ret) == IF ret THEN "ok" ELSE "failed"

(***************************************************************************)
(* runCli (cli.ts)                                                         *)
(***************************************************************************)
\* Mutant: every answer counts as a yes
AnyAnswer(reply) == TRUE

\* answer.toLowerCase() === 'y'
IsYes(answer) == answer \in { "y", "Y" }

\* formatCurrency(amount, currency)
FormatCurrency(amount, cur) == << cur, ToFixed2(amount) >>

\* The object saveToJsonFile writes
OutputData(data) ==
    [ summary |-> [ totalSales |-> data.sales,
                    totalPurchases |-> data.purchases,
                    grandTotal |-> data.total,
                    currency |-> data.currency,
                    itemCount |-> Len(data.items) ],
      transactions |-> [ i \in DOMAIN data.items |->
                           [ name |-> data.items[i].name,
                             price |-> data.items[i].price,
                             formattedPrice |-> FormatCurrency(data.items[i].price,
                                                               data.currency),
                             type |-> data.items[i].type ] ] ]

\* saveToJsonFile: writes the file and returns true; false when writing throws
SaveToJsonFile(data, io) ==
    [ ret |-> io, written |-> IF io THEN Some(OutputData(data)) ELSE None ]

\* The item goes behind the items of the sorted list whose price is not lower
InsertByPrice(sorted, item) ==
    LET k == Cardinality({ i \in DOMAIN sorted : sorted[i].price >= item.price })
    IN  SubSeq(sorted, 1, k) \o << item >> \o SubSeq(sorted, k + 1, Len(sorted))

\* sort((a, b) => b.price - a.price): highest price first, equal prices in their
\* order of arrival
RECURSIVE SortByPrice(_)
SortByPrice(its) ==
    IF its = << >> THEN << >>
    ELSE InsertByPrice(SortByPrice(SubSeq(its, 1, Len(its) - 1)), its[Len(its)])

\* Mutant: result.items itself is sorted
SortedInPlace(r) ==
    [ sortedItems |-> SortByPrice(r.items),
      result |-> [ r EXCEPT !.items = SortByPrice(r.items) ] ]

\* const sortedItems = [...result.items].sort(...): a sorted copy, and the result
\* as it is afterwards
SortedCopy(r) ==
    [ sortedItems |-> SortByPrice(r.items), result |-> r ]

\* slice(0, n)
Slice(its, n) == SubSeq(its, 1, IF n < Len(its) THEN n ELSE Len(its))

\* The number of transactions to list when --top is not given
DefaultTop == 10

\* Values of topTransactionsCount: one, and the default
TopCounts == { 1, DefaultTop }

\* What the user and the file system do during the prompts of one run
RunInputs(typed) ==
    [ ioLoad : BOOLEAN, useExisting : { "y", "Y", "n" }, typed : typed,
      saveAnswer : { "y", "n" }, ioSave : BOOLEAN, output : BOOLEAN ]

\* Credentials as the prompts build them: the two required values as typed, which
\* may be empty, and the optional ones when the user asks for them
EmptySessionAuth == [ RequiredAuth EXCEPT !.sessionId = "" ]

EmptyLoginAuth == [ FullAuth EXCEPT !.steamLoginSecure = "" ]

TypedPool == { RequiredAuth, FullAuth, EmptySessionAuth, EmptyLoginAuth }

\* The .env files a run may find: none, saved credentials, a file without the
\* session cookie
EnvFiles ==
    { None, Some(EnvVars(RequiredAuth)), Some(EnvVars(FullAuth)),
      Some(EnvVars(EmptySessionAuth)) }

(***************************************************************************)
(* Specification                                                           *)
(***************************************************************************)
InitCall ==
    /\ pc = "idle"
    /\ authParams = None
    /\ cookieValue = << >>
    /\ start = 0
    /\ totalCount = 0
    /\ hasMoreItems = TRUE
    /\ pageCount = 0
    /\ items = << >>
    /\ total = 0
    /\ salesTotal = 0
    /\ purchasesTotal = 0
    /\ currency = << >>
    /\ result = None
    /\ error = None
    /\ wait = 0
    /\ inFlight = 0
    /\ log = << >>
    /\ response = None
    /\ calls = 0

\* runCli has not run
InitRun ==
    /\ cli = "off"
    /\ useSavedCookies = FALSE
    /\ entered = None
    /\ outputPath = FALSE
    /\ exported = None
    /\ shown = << >>
    /\ offered = FALSE
    /\ deleteCookies = ""
    /\ persisted = NotPersisted

\* The function on its own, called directly
Init == InitCall /\ InitRun /\ envFile = None

\* calculateSteamMarketTotal(authParams) is called; an earlier call has settled
Call(auths) ==
    /\ pc \in { "idle", "done", "failed" }
    /\ calls < MaxCalls
    /\ cli = "off"
    /\ \E a \in auths : Becomes(Enter(St, a))
    /\ UNCHANGED cliVars

\* The response of the request in flight arrives
Receive(responses) ==
    /\ pc = "fetching"
    /\ \E resp \in responses : Becomes(OnResponse(St, resp))
    /\ UNCHANGED cliVars

\* The request in flight fails without a response
Reject ==
    /\ pc = "fetching"
    /\ Becomes(OnReject(St))
    /\ UNCHANGED cliVars

\* The timer of the inter-page delay fires and the loop goes round
DelayElapsed ==
    /\ pc = "delaying"
    /\ Becomes(IssueFetch(St))
    /\ UNCHANGED cliVars

Next == Call(AuthPool) \/ Receive(PagingResponses) \/ Reject \/ DelayElapsed

Spec == Init /\ [][Next]_vars

NextRows == Call(RowAuth) \/ Receive(RowResponses) \/ Reject \/ DelayElapsed

SpecRows == Init /\ [][NextRows]_vars


\* runCli up to its call of calculateSteamMarketTotal: load the saved credentials,
\* ask whether to use them, else prompt for credentials and offer to save them
RunCli(typed) ==
    /\ cli \in { "off", "finished", "crashed" }
    /\ pc \in { "idle", "done", "failed" }
    /\ calls < MaxCalls
    /\ \E in \in RunInputs(typed) :
         LET savedCookies == LoadCookies(envFile, in.ioLoad)
             useSaved == savedCookies # None /\ IsYes(in.useExisting)
             params == IF useSaved THEN savedCookies[1] ELSE in.typed
             saving == ~useSaved /\ IsYes(in.saveAnswer)
             saved == SaveCookies(params, envFile, in.ioSave)
         IN  \* a question that is not asked has no answer, a file that is not
             \* written has no outcome: their inputs take one fixed value
             /\ savedCookies = None => in.useExisting = "n"
             /\ useSaved => (in.typed = CHOOSE t \in typed : TRUE) /\ in.saveAnswer = "n"
             /\ ~saving => in.ioSave
             /\ useSavedCookies' = useSaved
             /\ entered' = IF useSaved THEN None ELSE Some(in.typed)
             /\ outputPath' = in.output
             /\ exported' = None
             /\ shown' = << >>
             /\ offered' = FALSE
             /\ deleteCookies' = ""
             /\ persisted' = [ load |-> Outcome(LoadEnv(envFile, in.ioLoad).ret),
                                save |-> IF saving THEN Outcome(saved.ret) ELSE "none",
                                delete |-> "none" ]
             /\ IF saving /\ saved.threw
                   THEN /\ cli' = "crashed"
                        /\ envFile' = envFile
                        /\ Becomes(St)
                   ELSE /\ cli' = "calculating"
                        /\ envFile' = IF saving THEN saved.file ELSE envFile
                        /\ Becomes(Enter(St, params))

\* runCli after calculateSteamMarketTotal settled: show and export the result, or
\* log the error and, when the saved credentials were in use, offer to delete them
RunCliSettled ==
    /\ cli = "calculating"
    /\ pc \in { "done", "failed" }
    /\ \E ioExport \in BOOLEAN, deleteAnswer \in { "y", "n" }, ioDelete \in BOOLEAN,
          topTransactionsCount \in TopCounts :
         LET sorting == IF pc = "done" THEN SortedCopy(result[1])
                        ELSE [ sortedItems |-> << >>, result |-> << >> ]
             exporting == pc = "done" /\ outputPath
             asking == pc = "failed" /\ useSavedCookies
             deleting == asking /\ IsYes(deleteAnswer)
             removed == DeleteCookies(envFile, ioDelete)
         IN  /\ ~exporting => ioExport
             /\ ~asking => deleteAnswer = "n"
             /\ ~deleting => ioDelete
             /\ pc # "done" => topTransactionsCount = DefaultTop
             /\ cli' = "finished"
             /\ shown' = Slice(sorting.sortedItems, topTransactionsCount)
             /\ exported' = IF exporting
                             THEN SaveToJsonFile(sorting.result, ioExport).written
                             ELSE None
             /\ offered' = asking
             /\ deleteCookies' = IF asking THEN deleteAnswer ELSE ""
             /\ envFile' = IF deleting THEN removed.file ELSE envFile
             /\ persisted' = [ persisted EXCEPT
                                  !.delete = IF deleting THEN Outcome(removed.ret)
                                             ELSE "none" ]
             /\ UNCHANGED << useSavedCookies, entered, outputPath >>
    /\ Becomes(St)

\* The command-line program over a credential file that may already exist
InitCli == InitCall /\ InitRun /\ envFile \in EnvFiles

NextCli == RunCli(TypedPool) \/ Receive(AuthResponses) \/ Reject \/ DelayElapsed \/ RunCliSettled

SpecCli == InitCli /\ [][NextCli]_vars

\* The function under the scheduling of its awaits: a pending fetch settles (its
\* promise resolves with a response or rejects) and a pending timer fires
NextLive == Call(RowAuth) \/ Receive(LiveResponses) \/ Reject \/ DelayElapsed

SpecLive ==
    /\ Init
    /\ [][NextLive]_vars
    /\ WF_vars(Receive(LiveResponses) \/ Reject)
    /\ WF_vars(DelayElapsed)

\* Pages whose order of arrival is not their order of price, over one or two pages
ExportResponses == ResponsesOver({ Some(1), Some(count + 1) }, { SaleRow, PurchaseRow })

\* The command-line program without a credential file, on pages of sales and
\* purchases
NextExport ==
    RunCli(RowAuth) \/ Receive(ExportResponses) \/ Reject \/ DelayElapsed \/ RunCliSettled

SpecExport == Init /\ [][NextExport]_vars

NextAuth == Call(AuthAll) \/ Receive(AuthResponses) \/ Reject \/ DelayElapsed

SpecAuth == Init /\ [][NextAuth]_vars

(***************************************************************************)
(* Properties                                                              *)
(***************************************************************************)
IsFetch(e) == e.ev = "fetch"

IsDelay(e) == e.ev = "delay"

Fetches == SelectSeq(log, IsFetch)

Delays == SelectSeq(log, IsDelay)

\* The number of events of a kind among the first n events of the log
CountBefore(kind, n) == Cardinality({ i \in 1..n : log[i].ev = kind })

\* Some page of the call failed: a non-success status, no results_html, no response
PageFailed ==
    \E i \in DOMAIN log :
        \/ log[i].ev = "rejected"
        \/ log[i].ev = "response" /\ (~log[i].ok \/ ~log[i].html)

\* The call returned a result and none of its pages failed
Succeeded == pc = "done" /\ ~PageFailed

CeilDiv(a, b) == (a + b - 1) \div b

\* The rows of the page the current iteration received, if it received one
PageRows(r) == IF r # None /\ r[1].ok /\ r[1].data.results_html # None
               THEN r[1].data.results_html[1] ELSE << >>

\* This step handles a response that carries a page
HandlesPage ==
    /\ response = None
    /\ response' # None
    /\ response'[1].ok
    /\ response'[1].data.results_html # None

\* C1: a result is returned only if no page failed and every page at an offset
\* 0, 500, ... below totalCount was fetched and aggregated.
C1_NoPartialResult ==
    result # None =>
        /\ ~PageFailed
        /\ \A k \in 0..(totalCount \div count) :
               k * count < totalCount =>
                   \E i \in DOMAIN log : log[i].ev = "page" /\ log[i].start = k * count

\* C2: a successful response without results_html makes the call fail, with an
\* error that is not the one of a non-success status.
C2_MissingResultsFails ==
    \A i \in DOMAIN log :
        (log[i].ev = "response" /\ log[i].ok /\ ~log[i].html) =>
            /\ pc = "failed"
            /\ result = None
            /\ error # None
            /\ error # Some("HTTP error")

\* C3: a non-success status is the last thing the call sees: the call has failed
\* with the HTTP error, no result, no later fetch or delay, nothing pending.
C3_HttpErrorAborts ==
    \A i \in DOMAIN log :
        (log[i].ev = "response" /\ ~log[i].ok) =>
            /\ i = Len(log)
            /\ pc = "failed"
            /\ error = Some("HTTP error")
            /\ result = None
            /\ inFlight = 0
            /\ wait = 0

C3_Witness ==
    /\ pc = "failed"
    /\ Len(Fetches) = 2
    /\ log[Len(log)].ev = "response"
    /\ ~log[Len(log)].ok

\* C4 as stated: a successful call whose first response reports totalCount issues
\* ceil(totalCount / 500) fetches and delays one time less.
C4_FetchCount ==
    (Succeeded /\ log[2].total_count # None) =>
        /\ Len(Fetches) = CeilDiv(log[2].total_count[1], count)
        /\ Len(Delays) = Len(Fetches) - 1

\* C4 amended: a successful call whose first response reports totalCount >= 1
\* issues ceil(totalCount / 500) fetches, and one whose first response reports 0
\* or no total_count issues one fetch; the delays are one fewer than the fetches.
C4_FetchCountAmended ==
    Succeeded =>
        LET reported == IF log[2].total_count = None THEN 0 ELSE log[2].total_count[1]
        IN  /\ Len(Fetches) = IF reported >= 1 THEN CeilDiv(reported, count) ELSE 1
            /\ Len(Delays) = Len(Fetches) - 1

C4_Witness ==
    /\ Succeeded
    /\ log[2].total_count = Some(2 * count + 1)
    /\ Len(Fetches) = 3
    /\ Len(Delays) = 2

\* C5: every fetch but the first directly follows one delay of 3000 ms, every
\* delay directly follows the processing of a page and is directly followed by
\* the next fetch, and a call that is done did not delay after its last page.
C5_DelayBetweenFetches ==
    /\ \A i \in DOMAIN log :
           /\ (log[i].ev = "fetch" /\ i > 1) =>
                  /\ log[i - 1].ev = "delay"
                  /\ log[i - 1].ms = DelayMs
                  /\ CountBefore("delay", i) = CountBefore("fetch", i - 1)
           /\ log[i].ev = "delay" =>
                  /\ i > 1
                  /\ log[i - 1].ev = "page"
                  /\ i < Len(log) => log[i + 1].ev = "fetch"
    /\ (log # << >> /\ log[Len(log)].ev = "delay") <=> pc = "delaying"
    /\ pc = "delaying" <=> wait = DelayMs
    /\ pc \in { "done", "failed" } => Len(Delays) < Len(Fetches)

C5_Witness ==
    /\ pc = "done"
    /\ Len(Fetches) = 3
    /\ Len(Delays) = 2
    /\ log[Len(log)].ev = "page"

\* This step issues a fetch
IssuesFetch == Len(log') > Len(log) /\ log'[Len(log')].ev = "fetch"

\* C6: at most one fetch is in flight, only while the call awaits it; when a
\* fetch is issued every earlier fetch has been answered and its page aggregated;
\* and a call issues a further fetch only when its delay elapses, none in flight.
C6_OneFetchInFlight ==
    /\ [](/\ inFlight \in { 0, 1 }
          /\ inFlight = 1 <=> pc = "fetching"
          /\ \A i \in DOMAIN log :
                 log[i].ev = "fetch" =>
                     /\ CountBefore("response", i - 1) = CountBefore("fetch", i - 1)
                     /\ CountBefore("page", i - 1) = CountBefore("fetch", i - 1))
    /\ [][ IssuesFetch =>
             /\ inFlight = 0
             /\ inFlight' = 1
             /\ calls' = calls => (pc = "delaying" /\ wait = DelayMs)
         ]_vars

C6_Witness ==
    /\ pc = "fetching"
    /\ inFlight = 1
    /\ Len(Fetches) = 3

\* C7: the k-th fetch of a call asks for start = 500 * (k - 1) and count = 500
\* and carries the Cookie header built from the call's authParams.
C7_FetchOrder ==
    \A k \in DOMAIN Fetches :
        /\ Fetches[k].start = 500 * (k - 1)
        /\ Fetches[k].count = 500
        /\ Fetches[k].cookie = BuildCookie(authParams)
        /\ Fetches[k].cookie = cookieValue
        /\ \A j \in DOMAIN Fetches : j # k => Fetches[j].start # Fetches[k].start

C7_Witness ==
    /\ Len(Fetches) = 3
    /\ Fetches[3].start = 1000
    /\ authParams = FullAuth
    /\ calls = 2

\* C8: the totals of a successful call add up:
\* |grandTotal - (salesTotal + purchasesTotal)| <= 0.01.
C8_TotalsAddUp ==
    Succeeded =>
        LET d == result[1].total - (result[1].sales + result[1].purchases)
        IN  d <= 10 /\ -d <= 10

\* The symbol the price pattern captures on a row, << >> when the row never
\* reaches the pattern or the pattern does not match
CapturedSymbol(row) ==
    IF row.gain = None \/ row.price = None THEN << >>
    ELSE IF Trim(row.gain[1]) = << >> \/ Trim(row.price[1]) = << >> THEN << >>
    ELSE IF PriceMatch(Trim(row.price[1])) = None THEN << >>
    ELSE PriceMatch(Trim(row.price[1]))[1].symbol

\* The first non-empty symbol captured on a sequence of rows, << >> if none
RECURSIVE FirstSymbol(_)
FirstSymbol(rows) ==
    IF rows = << >> THEN << >>
    ELSE IF CapturedSymbol(Head(rows)) # << >> THEN CapturedSymbol(Head(rows))
    ELSE FirstSymbol(Tail(rows))

\* C9: within a call a non-empty currency never changes, an empty one becomes
\* the first non-empty symbol of the page being handled, and the result carries
\* the currency.
C9_FirstCurrencyWins ==
    /\ [][ /\ (calls' = calls /\ currency # << >>) => currency' = currency
           /\ (calls' = calls /\ ~HandlesPage) => currency' = currency
           /\ (HandlesPage /\ currency = << >>) => currency' = FirstSymbol(PageRows(response'))
         ]_vars
    /\ [](result # None => result[1].currency = currency)

C9_Witness ==
    /\ pc = "done"
    /\ Len(Fetches) = 2
    /\ result[1].currency = << "$" >>
    /\ PageRows(response) = << PurchaseRow, NeitherRow >>
    /\ Len(items) = 3

\* A row without its indicator element or its price element, or with an empty
\* text in either
Incomplete(row) ==
    \/ row.gain = None
    \/ row.price = None
    \/ Trim(row.gain[1]) = << >>
    \/ Trim(row.price[1]) = << >>

IsComplete(row) == ~Incomplete(row)

\* C10: handling a page gives the items and the sums that the page without its
\* incomplete rows gives, and an incomplete row does not make the call fail.
C10_IncompleteRowsIgnored ==
    [][ HandlesPage =>
          LET rows == PageRows(response')
              expected == ProcessRows(St, SelectSeq(rows, IsComplete))
          IN  /\ items' = expected.items
              /\ total' = expected.total
              /\ salesTotal' = expected.salesTotal
              /\ purchasesTotal' = expected.purchasesTotal
              /\ pc' # "failed"
              /\ error' = None
      ]_vars

C10_Witness ==
    /\ pc = "done"
    /\ PageRows(response) = << NoPriceRow, SaleRow >>
    /\ Len(items) = 1
    /\ total = 1000

\* The record the classification rule gives a row: a sale when the indicator
\* contains '-', a purchase when it contains '+', none when it contains neither
\* (and none for a row that is incomplete or whose price does not parse)
ClaimedItems(row) ==
    IF Incomplete(row) THEN << >>
    ELSE
      LET indicator == Trim(row.gain[1])
          match == PriceMatch(Trim(row.price[1]))
      IN  IF match = None THEN << >>
          ELSE
            LET value == ParseFloat(ReplaceFirst(match[1].number, ",", "."))
            IN  IF value.nan THEN << >>
                ELSE IF Includes(indicator, "-")
                THEN << [ name |-> ItemName(row), price |-> value.val, type |-> "sale" ] >>
                ELSE IF Includes(indicator, "+")
                THEN << [ name |-> ItemName(row), price |-> value.val,
                          type |-> "purchase" ] >>
                ELSE << >>

RECURSIVE ClaimedItemsOf(_)
ClaimedItemsOf(rows) ==
    IF rows = << >> THEN << >> ELSE ClaimedItems(Head(rows)) \o ClaimedItemsOf(Tail(rows))

IsSaleItem(item) == item.type = "sale"

IsPurchaseItem(item) == item.type = "purchase"

\* The sum of the prices of a sequence of items
RECURSIVE SumPrices(_)
SumPrices(its) ==
    IF its = << >> THEN 0 ELSE Head(its).price + SumPrices(Tail(its))

\* C11: handling a page appends exactly the records the classification rule
\* gives its rows (sale for '-', purchase for '+', nothing for neither marker)
\* and adds exactly their prices to the three sums.
C11_Classification ==
    [][ HandlesPage =>
          LET new == ClaimedItemsOf(PageRows(response'))
          IN  /\ items' = items \o new
              /\ total' = total + SumPrices(new)
              /\ salesTotal' = salesTotal + SumPrices(SelectSeq(new, IsSaleItem))
              /\ purchasesTotal' = purchasesTotal + SumPrices(SelectSeq(new, IsPurchaseItem))
      ]_vars

\* The records one row contributes when the code handles it on its own
RowItems(row) == ProcessRow([ St EXCEPT !.items = << >> ], row).items

\* The records of the rows of a page, in the order of the rows in the fragment
RECURSIVE ItemsInOrder(_)
ItemsInOrder(rows) ==
    IF rows = << >> THEN << >> ELSE RowItems(Head(rows)) \o ItemsInOrder(Tail(rows))

\* C12: within a call items only grows at its end: a page appends the records of
\* its accepted rows in the order of the rows, every other step leaves items
\* alone, and the result carries items as it is.
C12_ItemsAppendOnly ==
    /\ [][ /\ calls' = calls =>
                /\ Len(items') >= Len(items)
                /\ SubSeq(items', 1, Len(items)) = items
           /\ HandlesPage => items' = items \o ItemsInOrder(PageRows(response'))
           /\ (calls' = calls /\ ~HandlesPage) => items' = items
         ]_vars
    /\ [](result # None => result[1].items = items)

C12_Witness ==
    /\ pc = "done"
    /\ Len(Fetches) = 2
    /\ PageRows(response) = << BothRow, SaleRow >>
    /\ Len(items) = 4
    /\ items[1].type = "purchase"
    /\ items[2].name = << "A" >>
    /\ items[3].price = 3004
    /\ items[4].price = 1000

\* The first response of the call was a success that carried no total_count
FirstWithoutTotal ==
    /\ Len(log) >= 2
    /\ log[2].ev = "response"
    /\ log[2].ok
    /\ log[2].total_count = None

\* C14: when the first response has no total_count, the call does not decide it
\* is done from the unknown total, and if results_html is absent too the call
\* fails and returns nothing.
C14_UnknownTotalDefers ==
    FirstWithoutTotal =>
        IF log[2].html
        THEN ~(pc = "done" /\ totalCount = 0)
        ELSE pc = "failed" /\ result = None /\ error # None

\* This step handles the first response of the call, a success whose total_count
\* is a number other than 0
CapturesTotal ==
    /\ Len(Fetches) = 1
    /\ response = None
    /\ response' # None
    /\ response'[1].ok
    /\ response'[1].data.total_count # None
    /\ response'[1].data.total_count[1] # 0

\* C15: within a call totalCount changes at most once, from 0 to the total_count
\* of the first successful response; no later response changes it, whatever
\* total_count it carries.
C15_TotalCountImmutable ==
    [][ calls' = calls =>
          IF CapturesTotal
          THEN totalCount = 0 /\ totalCount' = response'[1].data.total_count[1]
          ELSE totalCount' = totalCount
      ]_vars

C15_Witness ==
    /\ Len(Fetches) = 2
    /\ response # None
    /\ response[1].ok
    /\ response[1].data.total_count = Some(3 * count)
    /\ totalCount = 2 * count + 1

\* C20: at every point of a call the running sums are the sums of the prices of
\* the accepted records: the sales, the purchases, and all of them.
C20_SumsMatchItems ==
    /\ salesTotal = SumPrices(SelectSeq(items, IsSaleItem))
    /\ purchasesTotal = SumPrices(SelectSeq(items, IsPurchaseItem))
    /\ total = SumPrices(items)

\* An optional credential that is given and not the empty string
NonEmpty(o) == o # None /\ o[1] # ""

\* C16: the Cookie header is sessionid, then steamLoginSecure, then steamparental
\* iff parental is non-empty, then steamMachineAuth<steamId> iff machineAuth and
\* steamId are both non-empty; every request of the call carries it.
C16_CookieHeader ==
    pc # "idle" =>
        LET a == authParams
            required == << "sessionid=", a.sessionId,
                           "; steamLoginSecure=", a.steamLoginSecure >>
            parental == IF NonEmpty(a.steamParental)
                        THEN << "; steamparental=", a.steamParental[1] >> ELSE << >>
            machine == IF NonEmpty(a.steamMachineAuth) /\ NonEmpty(a.steamId)
                       THEN << "; steamMachineAuth", a.steamId[1], "=",
                               a.steamMachineAuth[1] >>
                       ELSE << >>
        IN  /\ cookieValue = required \o parental \o machine
            /\ (~NonEmpty(a.steamMachineAuth) \/ ~NonEmpty(a.steamId)) =>
                   \A i \in DOMAIN cookieValue : cookieValue[i] # "; steamMachineAuth"
            /\ \A k \in DOMAIN Fetches : Fetches[k].cookie = cookieValue

C16_Witness ==
    /\ pc = "fetching"
    /\ Len(Fetches) = 2
    /\ authParams.steamMachineAuth = Some("sma")
    /\ authParams.steamId = None
    /\ cookieValue = << "sessionid=", "sid", "; steamLoginSecure=", "sls",
                        "; steamparental=", "par" >>

\* C17: a fetch is issued only with a non-empty session id and a non-empty login
\* token; a run whose credentials lack either issues no fetch.
C17_RequiredFieldsChecked ==
    (cli # "off" /\ Len(Fetches) > 0) =>
        (authParams.sessionId # "" /\ authParams.steamLoginSecure # "")

\* Some successful response of the call lacked results_html
AuthenticationFailed ==
    \E i \in DOMAIN log : log[i].ev = "response" /\ log[i].ok /\ ~log[i].html

\* C18: a run on the saved credentials in which a response lacked results_html
\* does not end before the user was asked whether to delete the saved data.
C18_AuthFailureOffersDeletion ==
    (cli = "finished" /\ useSavedCookies /\ AuthenticationFailed) => offered

\* C19: no persistence failure ends the run with an exception. When saving the
\* entered credentials fails, the run still calls calculateSteamMarketTotal with
\* them: the fetch is issued with the entered credentials. When loading fails the
\* run goes on to manual entry, and when deleting fails the run ends normally.
C19_PersistenceFailureNonFatal ==
    /\ cli # "crashed"
    /\ persisted.save = "failed" =>
          /\ cli \in { "calculating", "finished" }
          /\ entered # None
          /\ authParams = entered[1]
          /\ Len(Fetches) >= 1
          /\ log[1].cookie = BuildCookie(entered[1])
    /\ (cli # "off" /\ persisted.load = "failed") =>
          /\ ~useSavedCookies
          /\ entered # None
          /\ Len(Fetches) >= 1
    /\ persisted.delete = "failed" => cli = "finished"

\* Saving failed over an existing file, and the run went on to a result for the
\* entered credentials
C19_Witness ==
    /\ persisted.save = "failed"
    /\ persisted.load = "failed"
    /\ envFile # None
    /\ cli = "finished"
    /\ pc = "done"
    /\ authParams = FullAuth
    /\ Len(items) = 1

\* C21: given that every fetch settles and every delay elapses, a call that is
\* fetching or delaying eventually has returned or thrown.
C21_Terminates ==
    (pc \notin { "idle", "done", "failed" }) ~> (pc \in { "done", "failed" })

\* A call that went through MaxPages fetches and the delays between them returned
C21_Witness ==
    /\ pc = "done"
    /\ Len(Fetches) = MaxPages
    /\ Len(Delays) = MaxPages - 1

\* The state with the accumulators of a call that has aggregated nothing
Fresh ==
    [ St EXCEPT !.items = << >>, !.total = 0, !.salesTotal = 0, !.purchasesTotal = 0,
                !.currency = << >> ]

\* C22: every call, after a call that returned or threw as well as the first,
\* begins at offset 0 with the total unknown, no items, zero sums, no currency and
\* no result, and what its first page gives is what that page alone gives.
C22_RunsIndependent ==
    [][ /\ calls' # calls =>
              /\ start' = 0
              /\ totalCount' = 0
              /\ items' = << >>
              /\ total' = 0
              /\ salesTotal' = 0
              /\ purchasesTotal' = 0
              /\ currency' = << >>
              /\ result' = None
              /\ error' = None
              /\ Len(log') = 1
              /\ log'[1].ev = "fetch"
              /\ log'[1].start = 0
        /\ (HandlesPage /\ Len(Fetches) = 1) =>
              LET expected == ProcessRows(Fresh, PageRows(response'))
              IN  /\ items' = expected.items
                  /\ total' = expected.total
                  /\ salesTotal' = expected.salesTotal
                  /\ purchasesTotal' = expected.purchasesTotal
                  /\ currency' = expected.currency
      ]_vars

\* A second call returned the one purchase in E of its own page
C22_Witness ==
    /\ calls = 2
    /\ pc = "done"
    /\ Len(Fetches) = 1
    /\ PageRows(response) = << PurchaseRow >>
    /\ result[1].currency = << "E" >>
    /\ Len(result[1].items) = 1
    /\ result[1].total = 2500

\* The row has no name element, or one whose trimmed text is empty
Nameless(row) == row.name = None \/ Trim(row.name[1]) = << >>

\* The row with a name given to it
Named(row) == [ row EXCEPT !.name = Some(<< "N" >>) ]

\* The last n records of items
LastItems(n) == SubSeq(items, Len(items) - n + 1, Len(items))

\* C23: no record has an empty name. A row of the page just handled that has no
\* name, or an empty one, gives the record and the sums the same row with a name
\* gives, except that the record is named 'Unknown Item'.
C23_NameNeverEmpty ==
    /\ \A i \in DOMAIN items : items[i].name # << >>
    /\ LET rows == PageRows(response)
           given == ItemsInOrder(rows)
       IN  /\ Len(given) <= Len(items)
           /\ LastItems(Len(given)) = given
           /\ \A j \in DOMAIN rows :
                 Nameless(rows[j]) =>
                   LET got == ProcessRow(Fresh, rows[j])
                       ref == ProcessRow(Fresh, Named(rows[j]))
                   IN  /\ Len(got.items) = Len(ref.items)
                       /\ got.total = ref.total
                       /\ got.salesTotal = ref.salesTotal
                       /\ got.purchasesTotal = ref.purchasesTotal
                       /\ \A k \in DOMAIN got.items :
                             /\ got.items[k].name = UnknownItem
                             /\ got.items[k].price = ref.items[k].price
                             /\ got.items[k].type = ref.items[k].type

\* A page with a row without a name element and a row with a blank name gave two
\* records named by the sentinel
C23_Witness ==
    /\ pc = "done"
    /\ PageRows(response) = << PurchaseRow, NeitherRow >>
    /\ Len(items) = 2
    /\ items[1].name = UnknownItem
    /\ items[2].name = UnknownItem
    /\ total = 2516

\* The indicator text of the row contains both markers
HasBothMarkers(row) ==
    /\ row.gain # None
    /\ Includes(row.gain[1], "-")
    /\ Includes(row.gain[1], "+")

\* C24: a row whose indicator text contains both '-' and '+' counts as a sale
\* only: its record has type 'sale' and its price is added once to salesTotal,
\* once to total and not to purchasesTotal.
C24_BothMarkersIsSale ==
    LET rows == PageRows(response)
    IN  /\ \A j \in DOMAIN rows :
              HasBothMarkers(rows[j]) =>
                LET got == ProcessRow(Fresh, rows[j])
                IN  /\ Len(got.items) <= 1
                    /\ got.purchasesTotal = 0
                    /\ got.salesTotal = SumPrices(got.items)
                    /\ got.total = SumPrices(got.items)
                    /\ \A k \in DOMAIN got.items : got.items[k].type = "sale"
        /\ (Len(Fetches) = 1 /\ \A j \in DOMAIN rows : HasBothMarkers(rows[j])) =>
              /\ items = ItemsInOrder(rows)
              /\ purchasesTotal = 0
              /\ salesTotal = SumPrices(items)
              /\ total = SumPrices(items)
              /\ \A k \in DOMAIN items : items[k].type = "sale"

\* A page of two rows with both markers gave two sales and no purchase
C24_Witness ==
    /\ pc = "done"
    /\ Len(Fetches) = 1
    /\ PageRows(response) = << BothRow, BothRow >>
    /\ Len(items) = 2
    /\ items[2].type = "sale"
    /\ salesTotal = 6008
    /\ total = 6008
    /\ purchasesTotal = 0

\* The price pattern matches on the row and the number it captures does not
\* convert
FailsToConvert(row) ==
    /\ IsComplete(row)
    /\ PriceMatch(Trim(row.price[1])) # None
    /\ ParseFloat(ReplaceFirst(PriceMatch(Trim(row.price[1]))[1].number, ",", ".")).nan

\* The row lacks its indicator element or its price element
LacksElement(row) == row.gain = None \/ row.price = None

\* C25: a row whose captured number does not convert adds no record and nothing
\* to the sums, yet its symbol becomes the currency if none was detected; a row
\* without its indicator or price element changes nothing, the currency included.
C25_CurrencyBeforeConversion ==
    LET rows == PageRows(response)
    IN  /\ \A j \in DOMAIN rows :
              LET got == ProcessRow(Fresh, rows[j])
              IN  /\ FailsToConvert(rows[j]) =>
                        /\ got.items = << >>
                        /\ got.total = 0
                        /\ got.salesTotal = 0
                        /\ got.purchasesTotal = 0
                        /\ got.currency = CapturedSymbol(rows[j])
                  /\ LacksElement(rows[j]) => got = Fresh
        /\ (Len(Fetches) = 1 /\ rows # << >>) =>
              /\ (FailsToConvert(rows[1]) /\ CapturedSymbol(rows[1]) # << >>) =>
                    currency = CapturedSymbol(rows[1])
              /\ (\A j \in DOMAIN rows : LacksElement(rows[j])) =>
                    currency = << >> /\ items = << >>

\* The first row of the call gave no record but its symbol E is the currency of
\* the result, not the $ of the sale that follows it
C25_Witness ==
    /\ pc = "done"
    /\ Len(Fetches) = 1
    /\ PageRows(response) = << NotANumberRow, SaleRow >>
    /\ result[1].currency = << "E" >>
    /\ Len(items) = 1
    /\ total = 1000

\* The exported transaction is the record, with its formatted price added
ExportOf(item, cur) ==
    [ name |-> item.name, price |-> item.price,
      formattedPrice |-> FormatCurrency(item.price, cur), type |-> item.type ]

\* C26: the export lists the records of the result in the order the function
\* returned them, whatever the listing by price showed, and itemCount is their
\* number.
C26_ExportKeepsOrder ==
    (cli = "finished" /\ exported # None) =>
        /\ result # None
        /\ result[1].items = items
        /\ Len(exported[1].transactions) = Len(items)
        /\ \A i \in DOMAIN items :
              exported[1].transactions[i] = ExportOf(items[i], result[1].currency)
        /\ exported[1].summary.itemCount = Len(exported[1].transactions)
        /\ shown = Slice(SortByPrice(items), Len(shown))

\* The listing showed the purchase of 2.50 before the sale of 1.00 and the export
\* has the sale first, as the page had it
C26_Witness ==
    /\ cli = "finished"
    /\ exported # None
    /\ Len(items) = 3
    /\ Len(shown) = 3
    /\ shown[1].price = 2500
    /\ shown[3].price = 1000
    /\ exported[1].transactions[1].price = 1000
    /\ exported[1].transactions[2].price = 2500
    /\ exported[1].transactions[3].price = 1000
    /\ exported[1].summary.itemCount = 3

\* deleteCookies was called in this run
DeleteInvoked == persisted.delete # "none"

\* C27: deleteCookies is called only in a run on the saved credentials whose
\* call threw, after the user answered y to the question; the credential file
\* disappears only through that call, so a run that succeeded and a run on typed
\* credentials leave an existing file in place.
C27_DeleteOnlyWithConsent ==
    /\ [](DeleteInvoked =>
            /\ cli = "finished"
            /\ useSavedCookies
            /\ pc = "failed"
            /\ error # None
            /\ offered
            /\ deleteCookies \in { "y", "Y" })
    /\ [][ (envFile # None /\ envFile' = None) =>
              (cli = "calculating" /\ persisted'.delete = "ok")
      ]_vars

\* A run on the saved credentials threw, the user agreed and the file is gone
C27_Witness ==
    /\ cli = "finished"
    /\ useSavedCookies
    /\ pc = "failed"
    /\ deleteCookies = "y"
    /\ persisted.delete = "ok"
    /\ envFile = None

====
